---- MODULE Spec2Model ----
(***************************************************************************)
(* The evacuation-alert feed of disaster-guard (pages/EmergencyEvacuation) *)
(* together with the parts of its environment that its behaviour depends   *)
(* on: the backend tables alerts / alert_responses / shelters, the         *)
(* realtime channel, the session manager's user object and the router      *)
(* that mounts and unmounts the component.                                 *)
(*                                                                         *)
(* A network call whose reply is used after other events may have changed  *)
(* what it read or wrote is two steps: the backend serves the request and, *)
(* later, the awaiting client code resumes on the reply.  The alerts query *)
(* is one step (the backend's read): resuming on it only issues the        *)
(* responses query, and its rows are used at the merge, two steps later.   *)
(* The shelters query is one step: the table never changes.                *)
(*                                                                         *)
(* React state setters act on the component instance whose closure called  *)
(* them; a call made for an instance that is no longer mounted changes      *)
(* nothing that is displayed and is only counted (lateSetState).           *)
(*                                                                         *)
(* Spec is the feed of one client with the session manager's auth events.  *)
(* The other specifications put one mount, or the feed without the         *)
(* re-run of its effect, next to one more part of the application:         *)
(* SpecTwoDevices a second client of the same user, SpecSession signOut    *)
(* and refreshProfile of the session manager, SpecSocial the Social page's *)
(* inserts into alerts, SpecLive a drop of the realtime connection.        *)
(* SpecProfile is the session manager alone, from its construction, with   *)
(* its session, its profile and the profile fetches it starts.             *)
(* SpecFair is Spec on a network on which every call returns.              *)
(***************************************************************************)
EXTENDS Integers, Sequences, FiniteSets, TLC

\* ------------------------------------------------------------- bounds
MaxAlerts == 2      \* rows the external authority inserts into alerts
MaxLoads  == 2      \* runs of the component's effect (mounts and re-runs)
MaxWrites == 2      \* calls of handleAlertResponse
MaxAccounts == 2    \* accounts that sign in on this browser (SpecProfile)
MaxFetches  == 3    \* calls of fetchProfile (SpecProfile)

\* ---------------------------------------------------------- constants
AlertIds  == 1..MaxAlerts
UserIds   == {1}
NoUser    == 0                       \* user === null
Responses == {"yes", "no"}           \* Enums<'response_type'>
Undefined == "undefined"
Null      == "null"
ShelterRows == <<"shelter">>         \* the rows of the shelters table
NoChannel == 0
NoProfile == 0                       \* profile === null

ErrAlerts     == "Failed to fetch alerts data. Please try again later."
ErrShelters   == "Failed to fetch shelters data. Please try again later."
ErrUnexpected == "An unexpected error occurred. Please try again later."
ErrSubmit     == "Failed to submit response. Please try again."

VARIABLES
    dbAlerts,       \* alerts table: ids ordered by created_at descending
    dbResponses,    \* alert_responses table: set of rows
    user,           \* AuthContext user: NoUser or the signed-in user's id
    mounted,        \* an EmergencyEvacuation instance is mounted
    inst,           \* identity of the latest component instance
    alerts,         \* useState<EvacuationAlert[]>
    shelters,       \* useState<Shelter[]>
    loading,        \* useState(true)
    error,          \* useState<string | null>
    channel,        \* the realtime channel: NoChannel, or the instance
                    \* whose effect subscribed it
    notifQ,         \* INSERT notifications sent to the channel, undelivered
    loads,          \* the invocations of fetchInitialData
    writes,         \* the invocations of handleAlertResponse
    liveDelivered,  \* history: ids whose notification this instance handled
    answered,       \* history: ids acknowledged or loaded with a response
    lateSetState,   \* history: a setter was called for an unmounted instance
    socialPosts,    \* alerts table: ids of the rows the Social page inserted
    authLoading,    \* AuthContext loading
    authCall,       \* the call of signOut or refreshProfile that is awaiting
    dropped,        \* the realtime connection of the channel is down
    subscriptions,  \* channels this client has subscribed and not removed
    otherDevice,    \* a second client of the same user showing the feed
    session,        \* AuthContext session
    profile,        \* AuthContext profile: NoProfile or the profile's id
    profileFetches, \* the calls of fetchProfile and what awaits them
    authInit        \* position of initializeAuth

vars == <<dbAlerts, dbResponses, user, mounted, inst, alerts, shelters,
          loading, error, channel, notifQ, loads, writes, liveDelivered,
          answered, lateSetState, socialPosts, authLoading, authCall,
          dropped, subscriptions, otherDevice, session, profile,
          profileFetches, authInit>>

dbVars   == <<dbAlerts, dbResponses, socialPosts>>
viewVars == <<alerts, shelters, loading, error>>
histVars == <<liveDelivered, answered>>
profVars == <<profile, profileFetches, authInit>>
extVars  == <<authLoading, authCall, otherDevice, profVars>>
chanVars == <<dropped, subscriptions>>

\* ------------------------------------------------------------ helpers
Ids(list) == {list[i].id : i \in 1..Len(list)}

EntriesOf(list, a) == {i \in 1..Len(list) : list[i].id = a}

Row(a, u, v) == [alert_id |-> a, user_id |-> u, response |-> v]

\* A session of user u; the null session has no user.
SessionOf(u) == [user |-> u]
NoSession    == SessionOf(NoUser)

\* session?.user ?? null
SessionUser(s) == IF s = NoSession THEN NoUser ELSE s.user

\* The instance whose closure is running is still the mounted one.
Live(i) == mounted /\ inst = i

\* A setter that writes whatever instance its closure belongs to, as a
\* store shared by all instances would.
SetStateAnyInstance(i, new, old) == new

\* A setter called by a closure of instance i: applied on a live instance,
\* dropped otherwise.
SetState(i, new, old) == IF Live(i) THEN new ELSE old

NoLoad == [inst |-> 0, user |-> NoUser, pc |-> "none", reply |-> "none",
           alertsData |-> <<>>, alertsError |-> FALSE, responsesData |-> {},
           populatedAlerts |-> FALSE]

DoneLoad == [NoLoad EXCEPT !.pc = "done"]

NoWrite == [inst |-> 0, user |-> NoUser, alertId |-> 0, response |-> "none",
            stage |-> "none"]

\* The second client before it has loaded the feed.
NoDevice == [loaded |-> FALSE, alerts |-> <<>>, error |-> Null,
             write |-> NoWrite]

\* The first unused slot (slots are used in order).
FreeLoad  == CHOOSE l \in 1..MaxLoads : loads[l].pc = "none"
                 /\ \A k \in 1..(l - 1) : loads[k].pc # "none"
FreeWrite == CHOOSE w \in 1..MaxWrites : writes[w].stage = "none"
                 /\ \A k \in 1..(w - 1) : writes[k].stage # "none"
HasFreeLoad  == \E l \in 1..MaxLoads : loads[l].pc = "none"
HasFreeWrite == \E w \in 1..MaxWrites : writes[w].stage = "none"

\* ----------------------------------------------- fetchInitialData, pure
\* new Map(responsesData.map(r => [r.alert_id, r.response]))
userResponsesHas(responsesData, a) == \E r \in responsesData : r.alert_id = a

userResponsesGet(responsesData, a) ==
    IF userResponsesHas(responsesData, a)
    THEN (CHOOSE r \in responsesData : r.alert_id = a).response
    ELSE Undefined

\* The merge without the join: every alert is shown as unanswered.
enrichedAlertsNoJoin(alertsData, responsesData) ==
    [i \in 1..Len(alertsData) |->
        [id |-> alertsData[i], responded |-> FALSE, response |-> Undefined]]

enrichedAlerts(alertsData, responsesData) ==
    [i \in 1..Len(alertsData) |->
        [id        |-> alertsData[i],
         responded |-> userResponsesHas(responsesData, alertsData[i]),
         response  |-> userResponsesGet(responsesData, alertsData[i])]]

\* ------------------------------------------- handleAlertResponse, pure
\* No optimistic update: the list is left as it is until the reply.
OptimisticUpdateSkipped(prev, alertId, response) == prev

\* An optimistic update that marks the entry without recording the value.
OptimisticUpdateNoValue(prev, alertId, response) ==
    [i \in 1..Len(prev) |->
        IF prev[i].id = alertId
        THEN [prev[i] EXCEPT !.responded = TRUE]
        ELSE prev[i]]

OptimisticUpdate(prev, alertId, response) ==
    [i \in 1..Len(prev) |->
        IF prev[i].id = alertId
        THEN [prev[i] EXCEPT !.responded = TRUE, !.response = response]
        ELSE prev[i]]

\* A revert that clears the flag and keeps the response value.
RevertUpdateKeepsResponse(prev, alertId) ==
    [i \in 1..Len(prev) |->
        IF prev[i].id = alertId
        THEN [prev[i] EXCEPT !.responded = FALSE]
        ELSE prev[i]]

\* A revert that clears every entry of the list, whatever its alert.
RevertUpdateAll(prev, alertId) ==
    [i \in 1..Len(prev) |->
        [prev[i] EXCEPT !.responded = FALSE, !.response = Undefined]]

RevertUpdate(prev, alertId) ==
    [i \in 1..Len(prev) |->
        IF prev[i].id = alertId
        THEN [prev[i] EXCEPT !.responded = FALSE, !.response = Undefined]
        ELSE prev[i]]

\* ------------------------------------------------ realtime handler, pure
\* The new alert is put at the end of the list.
AppendAlert(prev, newAlert) ==
    Append(prev, [id |-> newAlert, responded |-> FALSE, response |-> Undefined])

PrependAlert(prev, newAlert) ==
    <<[id |-> newAlert, responded |-> FALSE, response |-> Undefined]>> \o prev

\* ---------------------------------------------------------------- Init
Init ==
    /\ dbAlerts = <<>>
    /\ dbResponses = {}
    /\ user \in UserIds
    /\ mounted = FALSE
    /\ inst = 0
    /\ alerts = <<>>
    /\ shelters = <<>>
    /\ loading = TRUE
    /\ error = Null
    /\ channel = NoChannel
    /\ notifQ = <<>>
    /\ loads = [l \in 1..MaxLoads |-> NoLoad]
    /\ writes = [w \in 1..MaxWrites |-> NoWrite]
    /\ liveDelivered = {}
    /\ answered = {}
    /\ lateSetState = FALSE
    /\ socialPosts = {}
    /\ authLoading = FALSE
    /\ authCall = "none"
    /\ dropped = FALSE
    /\ subscriptions = 0
    /\ otherDevice = NoDevice
    /\ session = SessionOf(user)
    /\ profile = NoProfile
    /\ profileFetches = <<>>
    /\ authInit = "done"

\* ------------------------------------------------- the effect, lines 27-89
\* fetchInitialData up to its first await: setLoading(true), setError(null)
\* and the alerts query is issued.
StartedLoad(i, u) == [NoLoad EXCEPT !.inst = i, !.user = u, !.pc = "alertsSent"]

\* ProtectedRoute that does not wait for the session manager.
ProtectedRouteIgnoringLoading == user # NoUser

\* ProtectedRoute renders its children (part_000, lines 10-18).
ProtectedRoute == ~authLoading /\ user # NoUser

\* The router renders /emergency under ProtectedRoute: a new instance with
\* the useState initial values, whose effect starts the load and subscribes.
Mount ==
    /\ ~mounted
    /\ ProtectedRoute
    /\ HasFreeLoad
    /\ mounted' = TRUE
    /\ inst' = inst + 1
    /\ alerts' = <<>>
    /\ shelters' = <<>>
    /\ loading' = TRUE
    /\ error' = Null
    /\ loads' = [loads EXCEPT ![FreeLoad] = StartedLoad(inst + 1, user)]
    /\ channel' = inst + 1
    /\ notifQ' = <<>>
    /\ liveDelivered' = {}
    /\ answered' = {}
    /\ dropped' = FALSE
    /\ subscriptions' = subscriptions + 1
    /\ UNCHANGED <<dbVars, user, session, writes, lateSetState, extVars>>

\* The state of an instance that is unmounted is discarded: the variables
\* take the useState initial values again.
Discarded ==
    /\ alerts' = <<>>
    /\ shelters' = <<>>
    /\ loading' = TRUE
    /\ error' = Null
    /\ liveDelivered' = {}
    /\ answered' = {}

\* Unmount without the effect's cleanup.
UnmountKeepingChannel ==
    /\ mounted
    /\ mounted' = FALSE
    /\ Discarded
    /\ UNCHANGED <<dbVars, user, session, inst, channel, notifQ, loads, writes,
                   lateSetState, chanVars, extVars>>

\* Navigation away from /emergency: the instance is unmounted and the
\* effect's cleanup runs.
Unmount ==
    /\ mounted
    /\ mounted' = FALSE
    /\ channel' = NoChannel
    /\ notifQ' = <<>>
    /\ dropped' = FALSE
    /\ subscriptions' = subscriptions - 1
    /\ Discarded
    /\ UNCHANGED <<dbVars, user, session, inst, loads, writes, lateSetState,
                   extVars>>

\* onAuthStateChange while no feed is mounted: setSession(session),
\* setUser(session?.user ?? null).  The profile fetch the handler starts
\* does not reach the feed; it is followed in SpecProfile.
AuthEventUnmounted(s) ==
    /\ ~mounted
    /\ s # user
    /\ session' = SessionOf(s)
    /\ user' = SessionUser(session')
    /\ UNCHANGED <<dbVars, mounted, inst, viewVars, channel, notifQ, loads,
                   writes, histVars, lateSetState, chanVars, extVars>>

\* onAuthStateChange with a null session while the feed is mounted:
\* ProtectedRoute renders <Navigate>, the feed is unmounted, cleanup runs.
AuthEventSignedOut ==
    /\ mounted
    /\ session' = NoSession
    /\ user' = SessionUser(session')
    /\ mounted' = FALSE
    /\ channel' = NoChannel
    /\ notifQ' = <<>>
    /\ dropped' = FALSE
    /\ subscriptions' = subscriptions - 1
    /\ Discarded
    /\ profile' = NoProfile
    /\ UNCHANGED <<dbVars, inst, loads, writes, lateSetState, authLoading,
                   authCall, otherDevice, profileFetches, authInit>>

\* The effect re-run without the cleanup of the previous run: the old
\* channel is kept and a second one is subscribed.
AuthEventUserNoCleanup(s) ==
    /\ mounted
    /\ s \in UserIds
    /\ HasFreeLoad
    /\ session' = SessionOf(s)
    /\ user' = SessionUser(session')
    /\ loading' = TRUE
    /\ error' = Null
    /\ loads' = [loads EXCEPT ![FreeLoad] = StartedLoad(inst, s)]
    /\ subscriptions' = subscriptions + 1
    /\ UNCHANGED <<dbVars, mounted, inst, alerts, shelters, writes, histVars,
                   lateSetState, channel, notifQ, dropped, extVars>>

\* onAuthStateChange with a session while the feed is mounted: setUser gets
\* the event's user object, a new object, so the [user] dependency of the
\* effect changes: cleanup, then the effect runs again on the same instance.
AuthEventUser(s) ==
    /\ mounted
    /\ s \in UserIds
    /\ HasFreeLoad
    /\ session' = SessionOf(s)
    /\ user' = SessionUser(session')
    /\ loading' = TRUE
    /\ error' = Null
    /\ loads' = [loads EXCEPT ![FreeLoad] = StartedLoad(inst, s)]
    /\ channel' = inst
    /\ notifQ' = <<>>
    /\ dropped' = FALSE
    /\ subscriptions' = (subscriptions - 1) + 1
    /\ UNCHANGED <<dbVars, mounted, inst, alerts, shelters, writes, histVars,
                   lateSetState, extVars>>

\* ------------------------------------------------------------- backend
\* The external authority inserts a row into alerts; the backend sends an
\* INSERT notification to the subscribed channel.
AuthorityInsertAlert ==
    /\ Len(dbAlerts) < MaxAlerts
    /\ dbAlerts' = <<Len(dbAlerts) + 1>> \o dbAlerts
    /\ notifQ' = IF channel # NoChannel /\ ~dropped
                 THEN Append(notifQ, Len(dbAlerts) + 1)
                 ELSE notifQ
    /\ UNCHANGED <<dbResponses, socialPosts, user, session, mounted, inst,
                   viewVars, channel, loads, writes, histVars, lateSetState,
                   chanVars, extVars>>

\* The table without the constraint: no insert is a violation.
NoUniqueConstraint(rows, a, u) == FALSE

\* CONSTRAINT unique_user_alert_response UNIQUE (alert_id, user_id)
UniqueViolation(rows, a, u) ==
    \E r \in rows : r.alert_id = a /\ r.user_id = u

\* -------------------------------------------- fetchInitialData, lines 28-74
Outcomes == {"ok", "error", "throw"}

loadFrame == <<dbVars, user, session, mounted, inst, channel, notifQ, writes,
               chanVars, extVars>>

\* The catch block without the finally: loading is left as it was.
CatchNoFinally(l) ==
    /\ error' = SetState(loads[l].inst, ErrUnexpected, error)
    /\ loads' = [loads EXCEPT ![l] = DoneLoad]
    /\ lateSetState' = (lateSetState \/ ~Live(loads[l].inst))
    /\ UNCHANGED <<alerts, shelters, loading, histVars>>

\* catch (line 70) and finally (line 72).
CatchFinally(l) ==
    /\ error' = SetState(loads[l].inst, ErrUnexpected, error)
    /\ loading' = SetState(loads[l].inst, FALSE, loading)
    /\ loads' = [loads EXCEPT ![l] = DoneLoad]
    /\ lateSetState' = (lateSetState \/ ~Live(loads[l].inst))
    /\ UNCHANGED <<alerts, shelters, histVars>>

\* Lines 35-43: the backend answers select('*') on alerts, ordered by
\* created_at descending; the client resumes and issues the responses query
\* whatever alertsError is.
FetchAlerts(l) ==
    /\ loads[l].pc = "alertsSent"
    /\ \/ CatchFinally(l)
       \/ /\ \E res \in {"ok", "error"} :
                loads' = [loads EXCEPT ![l].pc = "responsesSent",
                             ![l].alertsError = (res = "error"),
                             ![l].alertsData =
                                 IF res = "ok" THEN dbAlerts ELSE <<>>]
          /\ UNCHANGED <<viewVars, histVars, lateSetState>>
    /\ UNCHANGED loadFrame

\* The backend answers select('*') on alert_responses .eq('user_id', user.id).
ServeResponses(l) ==
    /\ loads[l].pc = "responsesSent"
    /\ \E res \in Outcomes :
          loads' = [loads EXCEPT ![l].pc = "responsesReplied", ![l].reply = res,
                       ![l].responsesData =
                           IF res = "ok"
                           THEN {r \in dbResponses : r.user_id = loads[l].user}
                           ELSE {}]
    /\ UNCHANGED <<loadFrame, viewVars, histVars, lateSetState>>

\* Lines 45-61: the error check, the merge and setAlerts, the shelters query.
ResumeResponses(l) ==
    /\ loads[l].pc = "responsesReplied"
    /\ \/ /\ loads[l].reply = "throw"
          /\ CatchFinally(l)
       \/ /\ loads[l].reply # "throw"
          /\ loads[l].alertsError \/ loads[l].reply = "error"
          /\ error' = SetState(loads[l].inst, ErrAlerts, error)
          /\ loading' = SetState(loads[l].inst, FALSE, loading)
          /\ loads' = [loads EXCEPT ![l] = DoneLoad]
          /\ lateSetState' = (lateSetState \/ ~Live(loads[l].inst))
          /\ UNCHANGED <<alerts, shelters, histVars>>
       \/ /\ loads[l].reply = "ok"
          /\ ~loads[l].alertsError
          /\ LET merged == enrichedAlerts(loads[l].alertsData,
                                          loads[l].responsesData)
             IN  /\ alerts' = SetState(loads[l].inst, merged, alerts)
                 /\ answered' =
                       IF Live(loads[l].inst)
                       THEN answered \cup
                            {merged[i].id : i \in {j \in 1..Len(merged) :
                                                      merged[j].responded}}
                       ELSE answered
          /\ loads' = [loads EXCEPT ![l] = [NoLoad EXCEPT !.pc = "sheltersSent",
                           !.inst = loads[l].inst,
                           !.populatedAlerts = Live(loads[l].inst)]]
          /\ lateSetState' = (lateSetState \/ ~Live(loads[l].inst))
          /\ UNCHANGED <<shelters, loading, error, liveDelivered>>
    /\ UNCHANGED loadFrame

\* Lines 59-72: the backend answers select('*') on shelters and the client
\* resumes.
FetchShelters(l) ==
    /\ loads[l].pc = "sheltersSent"
    /\ \/ CatchFinally(l)
       \/ /\ error' = SetState(loads[l].inst, ErrShelters, error)
          /\ loading' = SetState(loads[l].inst, FALSE, loading)
          /\ loads' = [loads EXCEPT ![l] = DoneLoad]
          /\ lateSetState' = (lateSetState \/ ~Live(loads[l].inst))
          /\ UNCHANGED <<alerts, shelters, histVars>>
       \/ /\ shelters' = SetState(loads[l].inst, ShelterRows, shelters)
          /\ loading' = SetState(loads[l].inst, FALSE, loading)
          /\ loads' = [loads EXCEPT ![l] = DoneLoad]
          /\ lateSetState' = (lateSetState \/ ~Live(loads[l].inst))
          /\ UNCHANGED <<alerts, error, histVars>>
    /\ UNCHANGED loadFrame

\* ------------------------------------------ realtime handler, lines 80-83
Deliver ==
    /\ notifQ # <<>>
    /\ alerts' = SetState(channel, PrependAlert(alerts, Head(notifQ)), alerts)
    /\ liveDelivered' = IF Live(channel)
                        THEN liveDelivered \cup {Head(notifQ)}
                        ELSE liveDelivered
    /\ lateSetState' = (lateSetState \/ ~Live(channel))
    /\ notifQ' = Tail(notifQ)
    /\ UNCHANGED <<dbVars, user, session, mounted, inst, shelters, loading,
                   error, channel, loads, writes, answered, chanVars, extVars>>

\* The buttons rendered for every entry, whatever its responded flag.
ButtonShownAlways(a) ==
    /\ mounted
    /\ ~loading
    /\ EntriesOf(alerts, a) # {}

\* ---------------------------------------- handleAlertResponse, lines 91-121
\* A response button of an entry is rendered when the list is rendered
\* (!loading) and the entry has !alert.responded (lines 178, 214).
ButtonShown(a) ==
    /\ mounted
    /\ ~loading
    /\ \E i \in EntriesOf(alerts, a) : ~alerts[i].responded

\* The click: lines 92-108 up to the await of the insert.
Submit(a, v) ==
    /\ ButtonShown(a)
    /\ user # NoUser
    /\ HasFreeWrite
    /\ alerts' = OptimisticUpdate(alerts, a, v)
    /\ writes' = [writes EXCEPT ![FreeWrite] =
                     [inst |-> inst, user |-> user, alertId |-> a,
                      response |-> v, stage |-> "sent"]]
    /\ UNCHANGED <<dbVars, user, session, mounted, inst, shelters, loading,
                   error, channel, notifQ, loads, histVars, lateSetState,
                   chanVars, extVars>>

\* The backend executes the insert into alert_responses.
ServeWrite(w) ==
    /\ writes[w].stage = "sent"
    /\ \/ /\ ~UniqueViolation(dbResponses, writes[w].alertId, writes[w].user)
          /\ dbResponses' = dbResponses \cup
                 {Row(writes[w].alertId, writes[w].user, writes[w].response)}
          /\ writes' = [writes EXCEPT ![w].stage = "ok"]
       \/ /\ UniqueViolation(dbResponses, writes[w].alertId, writes[w].user)
          /\ writes' = [writes EXCEPT ![w].stage = "error"]
          /\ UNCHANGED dbResponses
       \/ /\ writes' = [writes EXCEPT ![w].stage = "error"]
          /\ UNCHANGED dbResponses
    /\ UNCHANGED <<dbAlerts, socialPosts, user, session, mounted, inst,
                   viewVars, channel, notifQ, loads, histVars, lateSetState,
                   chanVars, extVars>>

\* A successful reply that also clears the error message.
AckWriteClearingError(w) ==
    /\ writes[w].stage = "ok"
    /\ writes' = [writes EXCEPT ![w] = [NoWrite EXCEPT !.stage = "done"]]
    /\ answered' = IF Live(writes[w].inst)
                   THEN answered \cup {writes[w].alertId}
                   ELSE answered
    /\ error' = SetState(writes[w].inst, Null, error)
    /\ UNCHANGED <<dbVars, user, session, mounted, inst, alerts, shelters,
                   loading, channel, notifQ, loads, liveDelivered,
                   lateSetState, chanVars, extVars>>

\* Line 110 with error == null: nothing is done.
AckWrite(w) ==
    /\ writes[w].stage = "ok"
    /\ writes' = [writes EXCEPT ![w] = [NoWrite EXCEPT !.stage = "done"]]
    /\ answered' = IF Live(writes[w].inst)
                   THEN answered \cup {writes[w].alertId}
                   ELSE answered
    /\ UNCHANGED <<dbVars, user, session, mounted, inst, viewVars, channel,
                   notifQ, loads, liveDelivered, lateSetState, chanVars,
                   extVars>>

\* Lines 110-120 with an error: setError and the revert.
FailWrite(w) ==
    /\ writes[w].stage = "error"
    /\ error' = SetState(writes[w].inst, ErrSubmit, error)
    /\ alerts' = SetState(writes[w].inst,
                          RevertUpdate(alerts, writes[w].alertId), alerts)
    /\ writes' = [writes EXCEPT ![w] = [NoWrite EXCEPT !.stage = "done"]]
    /\ lateSetState' = (lateSetState \/ ~Live(writes[w].inst))
    /\ UNCHANGED <<dbVars, user, session, mounted, inst, shelters, loading,
                   channel, notifQ, loads, histVars, chanVars, extVars>>

\* ---------------------------------------------------------------- Next
Next ==
    \/ Mount
    \/ Unmount
    \/ \E s \in UserIds \cup {NoUser} : AuthEventUnmounted(s)
    \/ AuthEventSignedOut
    \/ \E s \in UserIds : AuthEventUser(s)
    \/ AuthorityInsertAlert
    \/ \E l \in 1..MaxLoads :
           \/ FetchAlerts(l)
           \/ ServeResponses(l)
           \/ ResumeResponses(l)
           \/ FetchShelters(l)
    \/ Deliver
    \/ \E a \in AlertIds, v \in Responses : Submit(a, v)
    \/ \E w \in 1..MaxWrites :
           \/ ServeWrite(w)
           \/ AckWrite(w)
           \/ FailWrite(w)

Spec == Init /\ [][Next]_vars

\* ------------------------------------------------- the session manager
\* setLoading(true) makes ProtectedRoute render <FullPageLoader/>: a mounted
\* feed is unmounted and its effect's cleanup runs.
ShowLoader ==
    /\ authLoading' = TRUE
    /\ IF mounted
       THEN /\ mounted' = FALSE
            /\ channel' = NoChannel
            /\ notifQ' = <<>>
            /\ dropped' = FALSE
            /\ subscriptions' = subscriptions - 1
            /\ Discarded
       ELSE UNCHANGED <<mounted, channel, notifQ, chanVars, viewVars, histVars>>

\* signOut (AuthContext, lines 165-168) up to the await, called from the
\* layout's menu, which is rendered under ProtectedRoute.
signOut ==
    /\ ProtectedRoute
    /\ authCall = "none"
    /\ authCall' = "signOut"
    /\ ShowLoader
    /\ UNCHANGED <<dbVars, user, session, inst, loads, writes, lateSetState,
                   otherDevice, profVars>>

\* supabase.auth.signOut() returns: lines 169-183.  On success the user is
\* set to null and the page is reloaded at /auth; on an error the user is
\* kept and the caller navigates to /auth.
signOutReturns ==
    /\ authCall = "signOut"
    /\ authCall' = "none"
    /\ authLoading' = FALSE
    /\ \/ session' = NoSession /\ user' = NoUser /\ profile' = NoProfile
       \/ UNCHANGED <<user, session, profile>>
    /\ UNCHANGED <<dbVars, mounted, inst, viewVars, channel, notifQ, loads,
                   writes, histVars, lateSetState, chanVars, otherDevice,
                   profileFetches, authInit>>

\* refreshProfile (AuthContext, lines 72-78) up to the await.  Its caller,
\* saveSettings (SocialTracker, lines 741-780), reaches it after two awaits,
\* so the page shown may by then be the feed.
refreshProfile ==
    /\ ProtectedRoute
    /\ authCall = "none"
    /\ authCall' = "refreshProfile"
    /\ ShowLoader
    /\ UNCHANGED <<dbVars, user, session, inst, loads, writes, lateSetState,
                   otherDevice, profVars>>

\* fetchProfile returns: lines 79-89, setLoading(false) in finally.
refreshProfileReturns ==
    /\ authCall = "refreshProfile"
    /\ authCall' = "none"
    /\ authLoading' = FALSE
    /\ UNCHANGED <<dbVars, user, session, mounted, inst, viewVars, channel,
                   notifQ, loads, writes, histVars, lateSetState, chanVars,
                   otherDevice, profVars>>

\* The feed with the session manager's calls; the user object changes only
\* while no feed is mounted.
NextSession ==
    \/ Mount
    \/ Unmount
    \/ \E s \in UserIds \cup {NoUser} : AuthEventUnmounted(s)
    \/ AuthEventSignedOut
    \/ AuthorityInsertAlert
    \/ \E l \in 1..MaxLoads :
           \/ FetchAlerts(l)
           \/ ServeResponses(l)
           \/ ResumeResponses(l)
           \/ FetchShelters(l)
    \/ Deliver
    \/ \E a \in AlertIds, v \in Responses : Submit(a, v)
    \/ \E w \in 1..MaxWrites :
           \/ ServeWrite(w)
           \/ AckWrite(w)
           \/ FailWrite(w)
    \/ signOut
    \/ signOutReturns
    \/ refreshProfile
    \/ refreshProfileReturns

SpecSession == Init /\ [][NextSession]_vars

\* ------------------------------------------------------ the Social page
\* handleSubmitPost (Social.tsx, lines 136-148), handleLike (168-176) and
\* handleComment (231-241) of some client of the application: an insert
\* into alerts with location 'social' or 'comment'.  The backend stores the
\* row and notifies the channels subscribed to INSERT on alerts.
SocialInsert ==
    /\ Len(dbAlerts) < MaxAlerts
    /\ dbAlerts' = <<Len(dbAlerts) + 1>> \o dbAlerts
    /\ socialPosts' = socialPosts \cup {Len(dbAlerts) + 1}
    /\ notifQ' = IF channel # NoChannel /\ ~dropped
                 THEN Append(notifQ, Len(dbAlerts) + 1)
                 ELSE notifQ
    /\ UNCHANGED <<dbResponses, user, session, mounted, inst, viewVars, channel,
                   loads, writes, histVars, lateSetState, chanVars, extVars>>

\* One mount of the feed, the external authority and the Social page.
NextSocial ==
    \/ Mount
    \/ AuthorityInsertAlert
    \/ SocialInsert
    \/ \E l \in 1..MaxLoads :
           \/ FetchAlerts(l)
           \/ ServeResponses(l)
           \/ ResumeResponses(l)
           \/ FetchShelters(l)
    \/ Deliver
    \/ \E a \in AlertIds, v \in Responses : Submit(a, v)
    \/ \E w \in 1..MaxWrites :
           \/ ServeWrite(w)
           \/ AckWrite(w)
           \/ FailWrite(w)

SpecSocial == Init /\ [][NextSocial]_vars

\* ------------------------------------------------ the live connection
\* The realtime connection of the subscribed channel goes down.  The
\* channel was subscribed without a status callback (line 84), so no code of
\* the component runs; the notifications in flight are lost.
ConnectionDrop ==
    /\ channel # NoChannel
    /\ ~dropped
    /\ dropped' = TRUE
    /\ notifQ' = <<>>
    /\ UNCHANGED <<dbVars, user, session, mounted, inst, viewVars, channel,
                   loads, writes, histVars, lateSetState, subscriptions,
                   extVars>>

\* The feed's loads and live channel, without response writes.
NextLive ==
    \/ Mount
    \/ Unmount
    \/ \E s \in UserIds : AuthEventUser(s)
    \/ AuthorityInsertAlert
    \/ \E l \in 1..MaxLoads :
           \/ FetchAlerts(l)
           \/ ServeResponses(l)
           \/ ResumeResponses(l)
           \/ FetchShelters(l)
    \/ Deliver
    \/ ConnectionDrop

SpecLive == Init /\ [][NextLive]_vars

\* ------------------------------------------------------ a second client
\* The same user shows the feed on a second device.  Its load is one step
\* and it has no live subscription; its handleAlertResponse is the one of
\* lines 91-121.
clientVars == <<user, session, mounted, inst, viewVars, channel, notifQ,
                loads, writes, histVars, lateSetState, chanVars, authLoading,
                authCall, profVars>>

\* fetchInitialData on the second device, lines 28-74, without failures.
OtherLoad ==
    /\ ~otherDevice.loaded
    /\ user # NoUser
    /\ otherDevice' = [otherDevice EXCEPT !.loaded = TRUE,
           !.alerts = enrichedAlerts(dbAlerts,
                         {r \in dbResponses : r.user_id = user})]
    /\ UNCHANGED <<dbVars, clientVars>>

\* The click on the second device, lines 92-108.
OtherSubmit(a, v) ==
    /\ otherDevice.loaded
    /\ user # NoUser
    /\ otherDevice.write.stage = "none"
    /\ \E i \in EntriesOf(otherDevice.alerts, a) :
           ~otherDevice.alerts[i].responded
    /\ otherDevice' = [otherDevice EXCEPT
           !.alerts = OptimisticUpdate(otherDevice.alerts, a, v),
           !.write = [inst |-> 0, user |-> user, alertId |-> a,
                      response |-> v, stage |-> "sent"]]
    /\ UNCHANGED <<dbVars, clientVars>>

\* The backend executes the second device's insert.
OtherServeWrite ==
    /\ otherDevice.write.stage = "sent"
    /\ \/ /\ ~UniqueViolation(dbResponses, otherDevice.write.alertId,
                               otherDevice.write.user)
          /\ dbResponses' = dbResponses \cup
                 {Row(otherDevice.write.alertId, otherDevice.write.user,
                      otherDevice.write.response)}
          /\ otherDevice' = [otherDevice EXCEPT !.write.stage = "ok"]
       \/ /\ UniqueViolation(dbResponses, otherDevice.write.alertId,
                              otherDevice.write.user)
          /\ otherDevice' = [otherDevice EXCEPT !.write.stage = "error"]
          /\ UNCHANGED dbResponses
    /\ UNCHANGED <<dbAlerts, socialPosts, clientVars>>

\* Line 110 on the second device with error == null.
OtherAckWrite ==
    /\ otherDevice.write.stage = "ok"
    /\ otherDevice' = [otherDevice EXCEPT !.write.stage = "acked"]
    /\ UNCHANGED <<dbVars, clientVars>>

\* Lines 110-120 on the second device.
OtherFailWrite ==
    /\ otherDevice.write.stage = "error"
    /\ otherDevice' = [otherDevice EXCEPT
           !.error = ErrSubmit,
           !.alerts = RevertUpdate(otherDevice.alerts,
                                   otherDevice.write.alertId),
           !.write.stage = "failed"]
    /\ UNCHANGED <<dbVars, clientVars>>

\* One mount of the feed on this device, and the second device.
NextTwoDevices ==
    \/ Mount
    \/ AuthorityInsertAlert
    \/ \E l \in 1..MaxLoads :
           \/ FetchAlerts(l)
           \/ ServeResponses(l)
           \/ ResumeResponses(l)
           \/ FetchShelters(l)
    \/ Deliver
    \/ \E a \in AlertIds, v \in Responses : Submit(a, v)
    \/ \E w \in 1..MaxWrites :
           \/ ServeWrite(w)
           \/ AckWrite(w)
           \/ FailWrite(w)
    \/ OtherLoad
    \/ \E a \in AlertIds, v \in Responses : OtherSubmit(a, v)
    \/ OtherServeWrite
    \/ OtherAckWrite
    \/ OtherFailWrite

SpecTwoDevices == Init /\ [][NextTwoDevices]_vars


\* ===================================================================
\* Properties
\* ===================================================================

\* ------------------------------------- the session manager's profile
\* AuthContext.tsx from the construction of AuthProvider.  The provider is
\* the root of the application and is never unmounted, so the effect's
\* mounted flag is true at every guard.  A profile is identified by its id,
\* which fetchProfile selects with .eq('id', userId).
AccountIds == 1..MaxAccounts

Sessions == {SessionOf(u) : u \in AccountIds \cup {NoUser}}

\* The useState initial values, and initializeAuth run up to its first
\* await (lines 36-41, 97-101).
InitProfile ==
    /\ session = NoSession
    /\ user = NoUser
    /\ profile = NoProfile
    /\ authLoading = TRUE
    /\ authInit = "getSession"
    /\ profileFetches = <<>>
    /\ authCall = "none"
    /\ dbAlerts = <<>>
    /\ dbResponses = {}
    /\ socialPosts = {}
    /\ mounted = FALSE
    /\ inst = 0
    /\ alerts = <<>>
    /\ shelters = <<>>
    /\ loading = TRUE
    /\ error = Null
    /\ channel = NoChannel
    /\ notifQ = <<>>
    /\ loads = [l \in 1..MaxLoads |-> NoLoad]
    /\ writes = [w \in 1..MaxWrites |-> NoWrite]
    /\ liveDelivered = {}
    /\ answered = {}
    /\ lateSetState = FALSE
    /\ dropped = FALSE
    /\ subscriptions = 0
    /\ otherDevice = NoDevice

profileFrame == <<dbVars, mounted, inst, viewVars, channel, notifQ, loads,
                  writes, histVars, lateSetState, chanVars, authCall,
                  otherDevice>>

\* The call fetchProfile(userId) made by initializeAuth ("init") or by the
\* onAuthStateChange handler ("event"), awaiting its reply.
StartedFetch(userId, from) == [userId |-> userId, from |-> from, stage |-> "sent"]

\* initializeAuth resumes on getSession: lines 103-130.
getSessionReturns(s, sessionError) ==
    /\ authInit = "getSession"
    /\ IF sessionError
       THEN /\ authLoading' = FALSE
            /\ authInit' = "done"
            /\ UNCHANGED <<session, user, profileFetches>>
       ELSE /\ session' = s
            /\ user' = SessionUser(s)
            /\ IF SessionUser(s) # NoUser
               THEN /\ Len(profileFetches) < MaxFetches
                    /\ profileFetches' =
                           Append(profileFetches,
                                  StartedFetch(SessionUser(s), "init"))
                    /\ authInit' = "fetchProfile"
                    /\ UNCHANGED authLoading
               ELSE /\ authLoading' = FALSE
                    /\ authInit' = "done"
                    /\ UNCHANGED profileFetches
    /\ UNCHANGED <<profile, profileFrame>>

\* The onAuthStateChange handler up to its await: lines 143-151, 153-155.
onAuthStateChange(s) ==
    /\ session' = s
    /\ user' = SessionUser(s)
    /\ IF SessionUser(s) # NoUser
       THEN /\ Len(profileFetches) < MaxFetches
            /\ profileFetches' =
                   Append(profileFetches, StartedFetch(SessionUser(s), "event"))
            /\ UNCHANGED profile
       ELSE /\ profile' = NoProfile
            /\ UNCHANGED profileFetches
    /\ UNCHANGED <<authLoading, authInit, profileFrame>>

\* fetchProfile returns the profile of userId, or null when the query
\* failed (lines 43-70), and its caller resumes: initializeAuth at lines
\* 121-129, the handler at line 152.
fetchProfileReturns(f, found) ==
    /\ f \in 1..Len(profileFetches)
    /\ profileFetches[f].stage = "sent"
    /\ profileFetches' = [profileFetches EXCEPT ![f].stage = "done"]
    /\ profile' = IF found THEN profileFetches[f].userId ELSE NoProfile
    /\ IF profileFetches[f].from = "init"
       THEN /\ authLoading' = FALSE
            /\ authInit' = "done"
       ELSE UNCHANGED <<authLoading, authInit>>
    /\ UNCHANGED <<session, user, profileFrame>>

NextProfile ==
    \/ \E s \in Sessions, sessionError \in BOOLEAN :
           getSessionReturns(s, sessionError)
    \/ \E s \in Sessions : onAuthStateChange(s)
    \/ \E f \in 1..MaxFetches, found \in BOOLEAN : fetchProfileReturns(f, found)

SpecProfile == InitProfile /\ [][NextProfile]_vars

\* A write of the mounted instance whose reply has not been handled yet.
InFlight(a) ==
    \E w \in 1..MaxWrites :
        /\ writes[w].stage \in {"sent", "ok", "error"}
        /\ writes[w].alertId = a
        /\ writes[w].inst = inst

\* list is the join of alertsData with the rows of user u.
MergedFrom(list, alertsData, rows, u) ==
    /\ Len(list) = Len(alertsData)
    /\ \A i \in 1..Len(list) :
          /\ list[i].id = alertsData[i]
          /\ list[i].responded <=>
                \E r \in rows : r.alert_id = list[i].id /\ r.user_id = u
          /\ list[i].responded =>
                \E r \in rows : /\ r.alert_id = list[i].id
                                /\ r.user_id = u
                                /\ r.response = list[i].response
          /\ ~list[i].responded => list[i].response = Undefined

\* C1 -- Load merge.  At the step at which a load of the mounted instance
\* merges its two replies (setAlerts, line 56), the list is exactly the
\* fetched alerts, in their order; an entry is responded iff the fetched
\* responses of the load's user hold a row for its id, its response is then
\* that row's value, and is undefined otherwise.
C1_LoadMerge ==
    [][\A l \in 1..MaxLoads :
          ( /\ loads[l].pc = "responsesReplied"
            /\ loads'[l].pc = "sheltersSent"
            /\ Live(loads[l].inst) )
          => MergedFrom(alerts', loads[l].alertsData, loads[l].responsesData,
                        loads[l].user)]_vars

C1_Witness ==
    \E l \in 1..MaxLoads :
        /\ loads[l].pc = "sheltersSent"
        /\ loads[l].populatedAlerts
        /\ Live(loads[l].inst)
        /\ \E i, j \in 1..Len(alerts) :
              /\ alerts[i].responded
              /\ alerts[i].response \in Responses
              /\ ~alerts[j].responded

\* C2 -- Optimistic ordering.  At the step at which a write is issued for an
\* alert shown as unanswered, the list already shows every entry of that id
\* as responded with the submitted value: the write is still unanswered in
\* that state.
C2_OptimisticOrdering ==
    [][\A w \in 1..MaxWrites :
          (writes[w].stage = "none" /\ writes'[w].stage = "sent")
          => /\ \E i \in EntriesOf(alerts, writes'[w].alertId) :
                   ~alerts[i].responded
             /\ EntriesOf(alerts', writes'[w].alertId) # {}
             /\ \A i \in EntriesOf(alerts', writes'[w].alertId) :
                   /\ alerts'[i].responded
                   /\ alerts'[i].response = writes'[w].response]_vars

C2_Witness ==
    \E w \in 1..MaxWrites :
        /\ writes[w].stage = "sent"
        /\ Live(writes[w].inst)
        /\ EntriesOf(alerts, writes[w].alertId) # {}
        /\ \A i \in EntriesOf(alerts, writes[w].alertId) :
              alerts[i].responded /\ alerts[i].response = writes[w].response

\* C3 -- Submit failure rollback.  At the step at which the instance that
\* issued a write, still mounted, handles its error reply, every entry of
\* that alert id is unanswered with an undefined response and the error
\* message is set.
C3_FailureRollback ==
    [][\A w \in 1..MaxWrites :
          ( /\ writes[w].stage = "error"
            /\ writes'[w].stage = "done"
            /\ Live(writes[w].inst) )
          => /\ \A i \in EntriesOf(alerts', writes[w].alertId) :
                   /\ ~alerts'[i].responded
                   /\ alerts'[i].response = Undefined
             /\ Len(alerts') = Len(alerts)
             /\ error' # Null]_vars

C3_Witness ==
    /\ mounted
    /\ error = ErrSubmit
    /\ alerts # <<>>
    /\ \A i \in 1..Len(alerts) :
          ~alerts[i].responded /\ alerts[i].response = Undefined
    /\ \E w \in 1..MaxWrites : writes[w].stage = "done"

\* C4 -- Submit success.  At the step at which the mounted instance handles
\* the successful reply of its write, the view is not changed, the alert (if
\* it is in the list) is shown as responded with the written value by at
\* least one of its entries, and the backend holds the row (alert, user,
\* value).
C4_SubmitSuccess ==
    [][\A w \in 1..MaxWrites :
          ( /\ writes[w].stage = "ok"
            /\ writes'[w].stage = "done"
            /\ Live(writes[w].inst) )
          => /\ alerts' = alerts
             /\ error' = error
             /\ \/ EntriesOf(alerts', writes[w].alertId) = {}
                \/ \E i \in EntriesOf(alerts', writes[w].alertId) :
                      /\ alerts'[i].responded
                      /\ alerts'[i].response = writes[w].response
             /\ Row(writes[w].alertId, writes[w].user, writes[w].response)
                   \in dbResponses']_vars

\* C5 -- Live arrival step.  A notification handled by the mounted instance
\* adds one entry at the head, for the notified alert and unanswered, and
\* the entries that were in the list follow it unchanged, in their order.
C5_LiveArrival ==
    [][(Deliver /\ mounted)
          => /\ Len(alerts') = Len(alerts) + 1
             /\ alerts'[1].id = Head(notifQ)
             /\ alerts'[1].responded = FALSE
             /\ \A i \in 1..Len(alerts) : alerts'[i + 1] = alerts[i]]_vars

C5_Witness ==
    /\ mounted
    /\ Len(alerts) >= 2
    /\ alerts[1].id \in liveDelivered
    /\ ~alerts[1].responded
    /\ \E i \in 2..Len(alerts) : alerts[i].responded

\* C6 -- No live alert is lost.  Every alert whose notification the mounted
\* instance has handled is in the list.
C6_NoLiveAlertLost ==
    mounted => liveDelivered \subseteq Ids(alerts)

\* C7 -- Answered is terminal.  While the instance stays mounted, an alert
\* that was acknowledged or loaded with a response, and that is shown as
\* responded, is not shown with every entry unanswered in the next state.
C7_AnsweredTerminal ==
    [][(mounted /\ mounted' /\ inst' = inst)
          => \A a \in answered :
                (\E i \in EntriesOf(alerts, a) : alerts[i].responded)
                => \/ EntriesOf(alerts', a) = {}
                   \/ \E j \in EntriesOf(alerts', a) : alerts'[j].responded]_vars

\* The state of alert a in the per-alert state machine.
AlertState(list, inFlight, a) ==
    IF EntriesOf(list, a) = {} THEN "Absent"
    ELSE IF \A i \in EntriesOf(list, a) : ~list[i].responded THEN "Unanswered"
    ELSE IF \E i \in EntriesOf(list, a) : ~list[i].responded THEN "Mixed"
    ELSE IF inFlight THEN "Pending"
    ELSE "Answered"

\* This step moves a write for alert a from one stage to another.
WriteStep(a, from, to) ==
    \E w \in 1..MaxWrites :
        /\ writes[w].stage = from
        /\ writes'[w].stage = to
        /\ (IF from = "none" THEN writes'[w].alertId ELSE writes[w].alertId) = a

\* C8 -- Per-alert state machine.  With responded == false as Unanswered,
\* responded == true with a write in flight as Pending and responded == true
\* with none in flight as Answered (an alert whose entries disagree has no
\* state), a step of the mounted instance changes the state of an alert only
\* from Unanswered to Pending by issuing a write for it, from Pending to
\* Answered by handling its successful reply, or from Pending to Unanswered
\* by handling its error reply.
C8_StateMachine ==
    [][(mounted /\ mounted' /\ inst' = inst)
          => \A a \in AlertIds :
                LET before == AlertState(alerts, InFlight(a), a)
                    after  == AlertState(alerts', InFlight(a)', a)
                IN  \/ before = after
                    \/ before \in {"Absent", "Mixed"}
                    \/ after \in {"Absent", "Mixed"}
                    \/ /\ before = "Unanswered" /\ after = "Pending"
                       /\ WriteStep(a, "none", "sent")
                    \/ /\ before = "Pending" /\ after = "Answered"
                       /\ WriteStep(a, "ok", "done")
                    \/ /\ before = "Pending" /\ after = "Unanswered"
                       /\ WriteStep(a, "error", "done")]_vars

\* C9 -- Load failure is all-or-nothing.  At the step at which a load of the
\* mounted instance ends by setting the error message, that load has not
\* populated the alert list, and the shelter list is left as it was.
C9_LoadAllOrNothing ==
    [][\A l \in 1..MaxLoads :
          ( /\ loads[l].pc \notin {"none", "done"}
            /\ loads'[l].pc = "done"
            /\ Live(loads[l].inst)
            /\ error = Null
            /\ error' # Null )
          => /\ ~loads[l].populatedAlerts
             /\ shelters' = shelters]_vars

\* C10 -- Unmount stops live mutations.  When no instance is mounted there is
\* no subscribed channel and no notification left to deliver, so the handler
\* cannot run.
C10_UnmountReleases ==
    ~mounted => (channel = NoChannel /\ notifQ = <<>> /\ ~ENABLED Deliver)

C10_Witness ==
    /\ ~mounted
    /\ inst > 0
    /\ dbAlerts # <<>>
    /\ \E l \in 1..MaxLoads : loads[l].inst = inst /\ loads[l].pc = "responsesSent"

C12_InsertOnlyUnique ==
    /\ [](\A r1, r2 \in dbResponses :
             (r1.alert_id = r2.alert_id /\ r1.user_id = r2.user_id) => r1 = r2)
    /\ [][/\ dbResponses \subseteq dbResponses'
          /\ \A r \in dbResponses' \ dbResponses :
                \E w \in 1..MaxWrites :
                   /\ writes[w].stage = "sent"
                   /\ r = Row(writes[w].alertId, writes[w].user,
                              writes[w].response)
          /\ \A w \in 1..MaxWrites :
                (writes[w].stage = "none" /\ writes'[w].stage = "sent")
                => (writes'[w].user = user /\ user # NoUser)]_vars

\* A second write for an alert that already has a row was rejected.
C12_Witness ==
    \E w1, w2 \in 1..MaxWrites :
        /\ writes[w1].stage = "ok"
        /\ writes[w2].stage = "error"
        /\ writes[w1].alertId = writes[w2].alertId
        /\ writes[w1].response # writes[w2].response
        /\ Cardinality({r \in dbResponses :
                           r.alert_id = writes[w1].alertId}) = 1

\* C13 -- Submit guard.  A write for an alert is issued only in a state in
\* which the list is rendered and holds an entry of that alert with
\* responded == false; when every entry of an alert is responded, no submit
\* for it is available.
C13_SubmitGuard ==
    /\ [][\A w \in 1..MaxWrites :
             (writes[w].stage = "none" /\ writes'[w].stage = "sent")
             => /\ mounted /\ ~loading
                /\ \E i \in EntriesOf(alerts, writes'[w].alertId) :
                      ~alerts[i].responded]_vars
    /\ [](\A a \in AlertIds :
             (\A i \in EntriesOf(alerts, a) : alerts[i].responded)
             => \A v \in Responses : ~ENABLED Submit(a, v))

\* An answered alert next to an unanswered one, with a write slot left: the
\* submit is available for the second and not for the first.
C13_Witness ==
    /\ mounted
    /\ ~loading
    /\ HasFreeWrite
    /\ \E a, b \in AlertIds :
          /\ EntriesOf(alerts, a) # {}
          /\ \A i \in EntriesOf(alerts, a) : alerts[i].responded
          /\ ~ENABLED Submit(a, "yes")
          /\ ENABLED Submit(b, "yes")

\* The rows of alert_responses for alert a and user u.
RowsOf(a, u) == {r \in dbResponses : r.alert_id = a /\ r.user_id = u}

\* Write w of this device and the write of the second device are for the
\* same alert and user.
SameRace(w) ==
    /\ writes[w].alertId = otherDevice.write.alertId
    /\ writes[w].user = otherDevice.write.user

\* C14 -- Two-device race.  When this device and a second device of the same
\* user have both submitted a response for an alert: exactly one row is
\* stored for it once the backend has executed the second device's insert,
\* and the two writes do not both succeed; the device whose write failed is
\* rolled back when it handles the reply (entries unanswered with an
\* undefined response, the submit error set); the device whose write
\* succeeded changes nothing when it handles the reply and shows the alert
\* as responded with its own value.
C14_TwoDeviceRace ==
    /\ [](/\ otherDevice.write.stage \in {"ok", "error", "acked", "failed"}
             => Cardinality(RowsOf(otherDevice.write.alertId,
                                   otherDevice.write.user)) = 1
          /\ \A w \in 1..MaxWrites :
                ~( /\ SameRace(w)
                   /\ writes[w].stage = "ok"
                   /\ otherDevice.write.stage \in {"ok", "acked"} ))
    /\ [][/\ ( /\ otherDevice.write.stage = "error"
               /\ otherDevice'.write.stage = "failed" )
             => /\ \A i \in EntriesOf(otherDevice'.alerts,
                                      otherDevice.write.alertId) :
                      /\ ~otherDevice'.alerts[i].responded
                      /\ otherDevice'.alerts[i].response = Undefined
                /\ otherDevice'.error = ErrSubmit
          /\ ( /\ otherDevice.write.stage = "ok"
               /\ otherDevice'.write.stage = "acked" )
             => /\ otherDevice'.alerts = otherDevice.alerts
                /\ otherDevice'.error = otherDevice.error
                /\ \A i \in EntriesOf(otherDevice'.alerts,
                                      otherDevice.write.alertId) :
                      /\ otherDevice'.alerts[i].responded
                      /\ otherDevice'.alerts[i].response =
                            otherDevice.write.response
          /\ \A w \in 1..MaxWrites :
                /\ ( /\ SameRace(w)
                     /\ otherDevice.write.stage \in {"ok", "acked"}
                     /\ writes[w].stage = "error"
                     /\ writes'[w].stage = "done"
                     /\ Live(writes[w].inst) )
                   => /\ \A i \in EntriesOf(alerts', writes[w].alertId) :
                            /\ ~alerts'[i].responded
                            /\ alerts'[i].response = Undefined
                      /\ error' = ErrSubmit
                /\ ( /\ SameRace(w)
                     /\ otherDevice.write.stage \in {"error", "failed"}
                     /\ writes[w].stage = "ok"
                     /\ writes'[w].stage = "done"
                     /\ Live(writes[w].inst) )
                   => /\ alerts' = alerts
                      /\ error' = error
                      /\ \E i \in EntriesOf(alerts', writes[w].alertId) :
                            /\ alerts'[i].responded
                            /\ alerts'[i].response = writes[w].response]_vars

\* C15 -- Subscription lifetime.  While the feed is mounted this client holds
\* exactly one subscribed channel, the one of the mounted instance; while it
\* is not mounted it holds none.
C15_SubscriptionLifetime ==
    /\ mounted => (subscriptions = 1 /\ channel = inst)
    /\ ~mounted => (subscriptions = 0 /\ channel = NoChannel)

\* The effect has run twice on the first instance (a mount and a change of
\* the user object) and one channel is subscribed.
C15_Witness ==
    /\ mounted
    /\ inst = 1
    /\ subscriptions = 1
    /\ loads[1].pc # "none"
    /\ loads[2].inst = 1

\* C16 -- Session gate.  Whenever the feed is mounted the session manager's
\* user is not null and its loading flag is false (so the feed is unmounted
\* in the step that ends the session or sets the flag), and every load and
\* every write that is started carries the id of a signed-in user.
C16_SessionGate ==
    /\ [](mounted => (user # NoUser /\ ~authLoading))
    /\ [][/\ \A l \in 1..MaxLoads :
                (loads[l].pc = "none" /\ loads'[l].pc # "none")
                => (loads'[l].user \in UserIds /\ loads'[l].user = user')
          /\ \A w \in 1..MaxWrites :
                (writes[w].stage = "none" /\ writes'[w].stage = "sent")
                => (writes'[w].user \in UserIds /\ writes'[w].user = user)]_vars

\* signOut has set the loading flag while a write of the feed was in flight:
\* the feed is unmounted.
C16_Witness ==
    /\ authCall = "signOut"
    /\ authLoading
    /\ ~mounted
    /\ \E w \in 1..MaxWrites :
          writes[w].stage = "sent" /\ writes[w].inst = inst

\* C17 -- Alerts are externally owned.  A step that changes the rows of the
\* alerts table is a step of the external authority: no operation of the
\* application inserts, changes or removes a row.
C17_AlertsExternallyOwned ==
    [][(dbAlerts' # dbAlerts \/ socialPosts' # socialPosts)
          => AuthorityInsertAlert]_vars

\* The stages a write passes through, and the positions of a load.
WriteOrder ==
    {<<"none", "sent">>, <<"sent", "ok">>, <<"sent", "error">>,
     <<"ok", "done">>, <<"error", "done">>}

LoadOrder ==
    {<<"none", "alertsSent">>, <<"alertsSent", "responsesSent">>,
     <<"responsesSent", "responsesReplied">>,
     <<"responsesReplied", "sheltersSent">>, <<"alertsSent", "done">>,
     <<"responsesReplied", "done">>, <<"sheltersSent", "done">>}

\* C18 -- No automatic retry.  A write is sent once, by a submit, and after
\* its reply it is never sent again; a load issues each of its three fetches
\* at most once, in order, and never goes back; and while the mounted feed
\* shows the error of a failed load, no new load is started: the next load
\* is the one of a remount.
C18_NoAutomaticRetry ==
    [][/\ \A w \in 1..MaxWrites :
             writes'[w].stage # writes[w].stage
             => <<writes[w].stage, writes'[w].stage>> \in WriteOrder
       /\ (\E w \in 1..MaxWrites :
              writes[w].stage = "none" /\ writes'[w].stage = "sent")
          => \E a \in AlertIds, v \in Responses : Submit(a, v)
       /\ \A l \in 1..MaxLoads :
             loads'[l].pc # loads[l].pc
             => <<loads[l].pc, loads'[l].pc>> \in LoadOrder
       /\ \A l \in 1..MaxLoads :
             ( /\ loads[l].pc = "none"
               /\ loads'[l].pc = "alertsSent"
               /\ error \in {ErrAlerts, ErrShelters, ErrUnexpected} )
             => ~mounted]_vars

\* The entries of list reappear in list2, in order, after k new entries at
\* its head, each unchanged unless this step issues a write for its alert or
\* handles the error reply of one.
Kept(list, list2, k) ==
    /\ Len(list2) = Len(list) + k
    /\ \A i \in 1..Len(list) :
          /\ list2[i + k].id = list[i].id
          /\ \/ list2[i + k] = list[i]
             \/ WriteStep(list[i].id, "none", "sent")
             \/ WriteStep(list[i].id, "error", "done")

\* C19 -- View-model lifetime.  While the same instance stays mounted, once
\* its load has completed (loading is false) the list is not created again
\* (loading stays false), and as long as it is shown every entry stays in the
\* list, with its responded/response state changed only by a submit for its
\* alert or by the rollback of one; new entries are added at the head only.
C19_ViewModelLifetime ==
    [][(mounted /\ mounted' /\ inst' = inst /\ ~loading)
          => /\ ~loading'
             /\ \E k \in 0..1 : Kept(alerts, alerts', k)]_vars

\* C20 -- Silent degradation.  The step at which the live connection drops
\* changes nothing of the component (list, shelters, loading, error), starts
\* no request and subscribes nothing; while the connection is down no
\* notification is queued or handled; and the connection is in use again
\* only after the instance that lost it has been unmounted.
C20_SilentDegradation ==
    /\ [](dropped => (notifQ = <<>> /\ ~ENABLED Deliver))
    /\ [][/\ (~dropped /\ dropped')
             => /\ viewVars' = viewVars
                /\ loads' = loads
                /\ writes' = writes
                /\ subscriptions' = subscriptions
                /\ channel' = channel
          /\ (dropped /\ ~dropped') => ~mounted']_vars

\* C21 -- Independence of alerts.  The step that issues a write for an alert
\* (optimistic update) and the step at which the mounted instance handles
\* the error reply of a write (rollback) keep the list's length and order
\* and leave every entry of another alert exactly as it was.
C21_Independence ==
    [][\A w \in 1..MaxWrites :
          ( \/ writes[w].stage = "none" /\ writes'[w].stage = "sent"
            \/ /\ writes[w].stage = "error"
               /\ writes'[w].stage = "done"
               /\ Live(writes[w].inst) )
          => LET a == IF writes[w].stage = "none" THEN writes'[w].alertId
                      ELSE writes[w].alertId
             IN  /\ Len(alerts') = Len(alerts)
                 /\ \A i \in 1..Len(alerts) :
                       /\ alerts'[i].id = alerts[i].id
                       /\ alerts[i].id # a => alerts'[i] = alerts[i]]_vars

\* The write for one alert has been rolled back while the write for the
\* other alert, which arrived live, is still in flight and shown responded.
C21_Witness ==
    /\ mounted
    /\ error = ErrSubmit
    /\ \E w1, w2 \in 1..MaxWrites :
          /\ writes[w1].stage = "done"
          /\ writes[w2].stage = "sent"
          /\ writes[w2].alertId \in liveDelivered
          /\ \E i, j \in 1..Len(alerts) :
                /\ alerts[i].id = writes[w2].alertId
                /\ alerts[i].responded
                /\ alerts[j].id # writes[w2].alertId
                /\ ~alerts[j].responded

\* The mounted feed is at rest: no load and no write of this client awaits a
\* reply, and the last load did not end in a load error.
Quiescent ==
    /\ mounted
    /\ ~loading
    /\ error \notin {ErrAlerts, ErrShelters, ErrUnexpected}
    /\ \A l \in 1..MaxLoads : loads[l].pc \in {"none", "done"}
    /\ \A w \in 1..MaxWrites : writes[w].stage \in {"none", "done"}

\* C22 -- View agrees with the backend when quiescent.  Whenever the load
\* has completed successfully and no response write of this client is in
\* flight, every entry of the list is responded exactly when alert_responses
\* stores a row for (its id, the current user), and then its response is the
\* stored value.
C22_QuiescentAgreement ==
    Quiescent =>
        \A i \in 1..Len(alerts) :
            /\ alerts[i].responded <=>
                   \E r \in dbResponses :
                       r.alert_id = alerts[i].id /\ r.user_id = user
            /\ alerts[i].responded =>
                   Row(alerts[i].id, user, alerts[i].response) \in dbResponses

\* C23 -- Profile is derived from the current identity.  In every state of
\* the session manager the user is null exactly when the session is null,
\* and a profile that is not null is the profile of the current user.
C23_ProfileOfCurrentUser ==
    /\ user = NoUser <=> session = NoSession
    /\ profile # NoProfile => (user # NoUser /\ profile = user)

\* C24 -- View-model well-formedness.  In every state, an entry of the list
\* that is not responded has an undefined response, and an entry that is
\* responded has the response 'yes' or 'no'.
C24_WellFormed ==
    \A i \in 1..Len(alerts) :
        /\ alerts[i].responded \in BOOLEAN
        /\ ~alerts[i].responded => alerts[i].response = Undefined
        /\ alerts[i].responded => alerts[i].response \in Responses

\* After a failed submit, the list shows a responded entry next to an
\* unanswered entry that arrived live.
C24_Witness ==
    /\ mounted
    /\ ~loading
    /\ error = ErrSubmit
    /\ \E i, j \in 1..Len(alerts) :
          /\ alerts[i].responded
          /\ alerts[i].response \in Responses
          /\ ~alerts[j].responded
          /\ alerts[j].id \in liveDelivered

\* A write issued by the mounted instance whose reply the client has not
\* handled yet.
Outstanding(w) ==
    /\ mounted
    /\ writes[w].inst = inst
    /\ writes[w].stage \in {"sent", "ok", "error"}

\* C25 -- At most one write per alert in flight.  In every state of the
\* mounted client no two outstanding response writes are for the same alert
\* id, and a write for an alert is issued only while no other write of the
\* client for that alert is outstanding.
C25_OneWritePerAlert ==
    /\ [](\A w1, w2 \in 1..MaxWrites :
             (w1 # w2 /\ Outstanding(w1) /\ Outstanding(w2))
             => writes[w1].alertId # writes[w2].alertId)
    /\ [][\A w \in 1..MaxWrites :
             (writes[w].stage = "none" /\ writes'[w].stage = "sent")
             => \A w2 \in 1..MaxWrites :
                    Outstanding(w2) => writes[w2].alertId # writes'[w].alertId]_vars

\* C26 -- Unique alert ids in the list.  In every state no two entries of
\* the alert list have the same alert id.
C26_UniqueIds ==
    \A i, j \in 1..Len(alerts) : alerts[i].id = alerts[j].id => i = j

\* A fetch of load l is awaited.
FetchInFlight(l) == loads[l].pc \notin {"none", "done"}

\* C27 -- Loading flag ends.  The step at which the last fetch of a load of
\* the mounted instance returns, on the success path and on every failure
\* path, leaves loading false; and in no state of the mounted component is
\* loading true while no fetch of that instance is in flight.
C27_LoadingEnds ==
    /\ [][\A l \in 1..MaxLoads :
             (FetchInFlight(l) /\ loads'[l].pc = "done" /\ Live(loads[l].inst))
             => ~loading']_vars
    /\ []((mounted /\ loading) =>
             \E l \in 1..MaxLoads : loads[l].inst = inst /\ FetchInFlight(l))

\* A load of the mounted instance has ended in the catch block and no fetch
\* is in flight.
C27_Witness ==
    /\ mounted
    /\ ~loading
    /\ error = ErrUnexpected
    /\ \E l \in 1..MaxLoads : loads[l].pc = "done"
    /\ \A l \in 1..MaxLoads : ~FetchInFlight(l)

\* C28 -- Error message frame.  The step at which the client handles the
\* successful reply of a write leaves the error message unchanged, and while
\* the component stays mounted the message of a failed submit becomes null
\* only in a step that starts a load.
C28_ErrorFrame ==
    [][/\ \A w \in 1..MaxWrites :
             (writes[w].stage = "ok" /\ writes'[w].stage = "done")
             => error' = error
       /\ (mounted /\ mounted' /\ error = ErrSubmit /\ error' = Null)
          => \E l \in 1..MaxLoads :
                 loads[l].pc = "none" /\ loads'[l].pc = "alertsSent"]_vars

\* On the first instance, with one alert and one load, a submit has failed
\* and a later submit for the same alert has been acknowledged: the entry is
\* responded and the message of the failed submit is still shown.
C28_Witness ==
    /\ mounted
    /\ inst = 1
    /\ \A l \in 2..MaxLoads : loads[l].pc = "none"
    /\ Len(dbAlerts) = 1
    /\ error = ErrSubmit
    /\ \A w \in 1..MaxWrites : writes[w].stage = "done"
    /\ \E i \in 1..Len(alerts) : alerts[i].responded

\* ----------------------------------------------- the feed under fairness
\* Every issued write eventually returns: the backend serves the insert and
\* the client resumes on the reply.
WritesReturn ==
    \A w \in 1..MaxWrites :
        /\ WF_vars(ServeWrite(w))
        /\ WF_vars(AckWrite(w))
        /\ WF_vars(FailWrite(w))

\* Every fetch of a load eventually returns.
FetchesReturn ==
    \A l \in 1..MaxLoads :
        /\ WF_vars(FetchAlerts(l))
        /\ WF_vars(ServeResponses(l))
        /\ WF_vars(ResumeResponses(l))
        /\ WF_vars(FetchShelters(l))

\* The feed of Spec on a network on which every call returns and every
\* notification sent to a subscribed channel is delivered.
SpecFair ==
    Init /\ [][Next]_vars /\ WritesReturn /\ FetchesReturn /\ WF_vars(Deliver)

\* Alert a is shown responded on the mounted instance while a write for it
\* is in flight.
Pending(a) == mounted /\ AlertState(alerts, InFlight(a), a) = "Pending"

\* Alert a is shown responded with no write in flight, or unanswered with
\* its buttons rendered.
Resolved(a) ==
    \/ AlertState(alerts, InFlight(a), a) = "Answered"
    \/ AlertState(alerts, InFlight(a), a) = "Unanswered" /\ ~loading

====
